---- MODULE Spec2Model ----
(***************************************************************************)
(* A model of the finite state machine interpreter of src/src/fsm.c:       *)
(* run_transition (the matcher) and run_fsm (the driver).                  *)
(*                                                                         *)
(* A run is modelled statement by statement.  The C call stack is the      *)
(* sequence `stack`; each element is one activation of run_fsm with its    *)
(* locals.  The pointer argument `data` of the outermost activation points *)
(* to the caller's cursor; the `data` of a nested activation points to the *)
(* data_copy of the activation below it.  Cursors are byte offsets into    *)
(* the NUL-terminated input.                                               *)
(***************************************************************************)
EXTENDS Integers, Sequences, FiniteSets, TLC

VARIABLES table, input, cursor, context, stack, phase, result,
          lastRet, zeroCommitted, reentered

vars == <<table, input, cursor, context, stack, phase, result,
          lastRet, zeroCommitted, reentered>>

(***************************************************************************)
(* Bounds of the model.                                                    *)
(***************************************************************************)
MaxLen == 1
MaxRows == 2
MaxDepth == 3
CtxCap == 2

(***************************************************************************)
(* Bytes and strings.  A C string is the sequence of its bytes before the  *)
(* terminating NUL; a null pointer is the distinguished value NULL_STR.    *)
(***************************************************************************)
NUL == "\\0"
OOB == "?"
NULL_STR == <<"NULL">>

strlen(s) == Len(s)

\* The byte at offset p of the input buffer: the input, then its NUL.
ByteAt(p) ==
  IF p < Len(input) THEN input[p + 1]
  ELSE IF p = Len(input) THEN NUL
  ELSE OOB

\* A bug: only the first byte is compared.
RECURSIVE memcmp_first(_, _, _, _)
memcmp_first(p, s, i, n) == n = 0 \/ ByteAt(p) = s[1]

\* memcmp(*data, str, n) == 0, comparing byte by byte from the first.
RECURSIVE memcmp_eq(_, _, _, _)
memcmp_eq(p, s, i, n) ==
  IF i > n THEN TRUE
  ELSE IF ByteAt(p + i - 1) # s[i] THEN FALSE
  ELSE memcmp_eq(p, s, i + 1, n)

\* A bug: only the first byte of the set is tried.
chr_loop_first(p, s, i) ==
  IF strlen(s) = 0 THEN -1
  ELSE IF ByteAt(p) = s[1] THEN 1
  ELSE -1

\* The loop of the SINGLE_CHR case: some i < strlen(str) has *data[0] == str[i].
RECURSIVE chr_loop(_, _, _)
chr_loop(p, s, i) ==
  IF i > strlen(s) THEN -1
  ELSE IF ByteAt(p) = s[i] THEN 1
  ELSE chr_loop(p, s, i + 1)

(***************************************************************************)
(* The host's callables.  A predicate (trans->action) gets the address of  *)
(* the cursor copy and the context; a callback (trans->transfn) gets the   *)
(* address of the real cursor and the context.  The context is a bounded   *)
(* log the callables append to.                                            *)
(***************************************************************************)
Log(ctx, fn, at) ==
  IF Len(ctx) < CtxCap THEN Append(ctx, [fn |-> fn, at |-> at]) ELSE ctx

\* trans->action(data, context, local_context): [ret, view, ctx] after the call.
action(fn, view, ctx) ==
  IF fn = "pred_eps"
    THEN [ret |-> 0, view |-> view, ctx |-> ctx]
  ELSE [ret |-> -1, view |-> view + 1, ctx |-> Log(ctx, fn, view)]

\* trans->transfn(data, context, local_context): the context after the call.
transfn(fn, at, ctx) == Log(ctx, fn, at)

(***************************************************************************)
(* Transition records and tables.                                          *)
(***************************************************************************)
T(cs, mt, str, tt, act, pass, fail, type, fn) ==
  [current_state |-> cs, match_type |-> mt, str |-> str,
   transition_table |-> tt, action |-> act,
   state_pass |-> pass, state_fail |-> fail, type |-> type, transfn |-> fn]

\* The row that ends a table: current_state -1.
Sentinel ==
  T(-1, "EXACT_STR", NULL_STR, "NULL", "NULL", -1, -1, "NORMAL", "NULL")

SubTables ==
  [sub_ab |->
     << T(0, "SINGLE_CHR", <<"a">>, "NULL", "NULL", 1, -1, "NORMAL", "cb_log"),
        T(1, "EXACT_STR", <<"b">>, "NULL", "NULL", 2, -1, "ACCEPT", "NULL") >>,
   sub_rej |->
     << T(0, "SINGLE_CHR", <<"a">>, "NULL", "NULL", 1, -1, "REJECT", "cb_log") >>,
   sub_eps |->
     << T(0, "EXACT_STR", <<>>, "NULL", "NULL", 1, -1, "ACCEPT", "NULL") >>]

RowPool ==
  { T(0, "SINGLE_CHR", <<"a", "b">>, "NULL", "NULL", 1, -1, "ACCEPT", "cb_log"),
    T(1, "SINGLE_CHR", <<"a", "b">>, "NULL", "NULL", 0, -1, "NORMAL", "NULL"),
    T(0, "EXACT_STR", <<"a", "b">>, "NULL", "NULL", 1, 1, "ACCEPT", "NULL"),
    T(1, "EXACT_STR", <<"b">>, "NULL", "NULL", 2, 0, "REJECT", "cb_log"),
    T(0, "EXACT_STR", <<>>, "NULL", "NULL", 1, -1, "ACCEPT", "cb_log"),
    T(0, "EXACT_STR", NULL_STR, "NULL", "NULL", 1, 1, "ACCEPT", "cb_log"),
    T(0, "SINGLE_CHR", <<>>, "NULL", "NULL", 1, 1, "ACCEPT", "cb_log"),
    T(0, "SINGLE_CHR", NULL_STR, "NULL", "NULL", 1, 1, "ACCEPT", "cb_log"),
    T(0, "FSM", NULL_STR, "sub_ab", "NULL", 1, 1, "ACCEPT", "cb_log"),
    T(0, "FSM", NULL_STR, "sub_rej", "NULL", 1, 1, "NORMAL", "NULL"),
    T(1, "FSM", NULL_STR, "sub_eps", "NULL", 2, -1, "ACCEPT", "NULL"),
    T(1, "FSM", NULL_STR, "main", "NULL", 2, -1, "ACCEPT", "NULL"),
    T(0, "FSM", NULL_STR, "NULL", "NULL", 1, 1, "ACCEPT", "cb_log"),
    T(0, "FUNC", NULL_STR, "NULL", "pred_eps", 0, -1, "NORMAL", "NULL"),
    T(0, "FUNC", NULL_STR, "NULL", "pred_skip_fail", 1, 1, "NORMAL", "NULL"),
    T(0, "FUNC", NULL_STR, "NULL", "NULL", 1, 1, "ACCEPT", "cb_log"),
    T(0, "BAD", <<"a", "b">>, "NULL", "NULL", 1, 1, "ACCEPT", "cb_log") }

RECURSIVE SeqsUpTo(_, _)
SeqsUpTo(S, n) ==
  IF n = 0 THEN {<<>>}
  ELSE LET R == SeqsUpTo(S, n - 1)
       IN R \cup {Append(s, x) : s \in {r \in R : Len(r) = n - 1}, x \in S}

Tables == SeqsUpTo(RowPool, MaxRows)

Inputs == SeqsUpTo({"a", "b"}, MaxLen) \cup {<<"a", "b", "c", "d">>}

\* The table an activation runs: the caller's, or one a FSM row names.
TableOf(id) == IF id = "main" THEN table ELSE SubTables[id]

\* Pointers to cursors: 0 is the address of the caller's cursor, i >= 1 the
\* address of the data_copy of activation i.
Load(st, cur, p) == IF p = 0 THEN cur ELSE st[p].data_copy

StoreStack(st, p, v) == IF p = 0 THEN st ELSE [st EXCEPT ![p].data_copy = v]

StoreCursor(cur, p, v) == IF p = 0 THEN v ELSE cur

\* The locals of a fresh activation of run_fsm (lines 135-137) that got the
\* pointer `data`, with the history the properties speak of: where *data was
\* at entry, the kind of the last committed transition, the lengths
\* committed, the rows attempted in the current pass, what the callback saw.
\* A bug: a run starts with the accept flag set.
NewFrameAccepting(tbl, data, at, ctx) ==
  [tbl |-> tbl, data |-> data,
   current_state |-> 0, nbytes_processed |-> 0, in_accept |-> 1,
   successful_trans |-> 0, current_trans |-> 1, data_copy |-> at,
   nbytes_used_transing |-> 0, pc |-> "while",
   start |-> at, lastType |-> "NONE", accepted |-> FALSE, gsum |-> 0,
   attempts |-> <<>>, pos0 |-> at, cbCount |-> 0, cbSaw |-> at,
   ctx0 |-> ctx, exhausted |-> FALSE, subRej |-> FALSE,
   everSubRej |-> FALSE]

NewFrame(tbl, data, at, ctx) ==
  [tbl |-> tbl, data |-> data,
   current_state |-> 0, nbytes_processed |-> 0, in_accept |-> 0,
   successful_trans |-> 0, current_trans |-> 1, data_copy |-> at,
   nbytes_used_transing |-> 0, pc |-> "while",
   start |-> at, lastType |-> "NONE", accepted |-> FALSE, gsum |-> 0,
   attempts |-> <<>>, pos0 |-> at, cbCount |-> 0, cbSaw |-> at,
   ctx0 |-> ctx, exhausted |-> FALSE, subRej |-> FALSE,
   everSubRej |-> FALSE]

NoRet ==
  [depth |-> 0, tbl |-> "main", value |-> 0, byReject |-> FALSE,
   start |-> 0, endpos |-> 0, lastType |-> "NONE", accepted |-> FALSE,
   gsum |-> 0, ctx0 |-> <<>>, exhausted |-> FALSE, everSubRej |-> FALSE]

Init ==
  /\ table \in Tables
  /\ input \in Inputs
  /\ cursor = 0
  /\ context = <<>>
  /\ stack = <<>>
  /\ phase = "init"
  /\ result = 0
  /\ lastRet = NoRet
  /\ zeroCommitted = FALSE
  /\ reentered = FALSE

(***************************************************************************)
(* run_transition                                                          *)
(***************************************************************************)
\* A bug: a row that cannot be run counts as a match of no bytes.
NoTransitionZero(trans) == 0

\* Lines 57, 78, 102, 115, 126: what run_transition returns for a row whose
\* kind it does not know or whose field for its kind is null.
NoTransition(trans) == -1

\* run_transition (lines 25-131) for every case but the call of line 105:
\* [ret, view, ctx], the value returned, the cursor copy and the context
\* after the call.
run_transition(trans, view, ctx) ==
  LET r(n) == [ret |-> n, view |-> view, ctx |-> ctx]
  IN CASE trans.match_type = "EXACT_STR" ->
            IF trans.str = NULL_STR THEN r(NoTransition(trans))
            ELSE IF memcmp_eq(view, trans.str, 1, strlen(trans.str))
              THEN r(strlen(trans.str))
            ELSE r(-1)
       [] trans.match_type = "SINGLE_CHR" ->
            IF trans.str = NULL_STR THEN r(NoTransition(trans))
            ELSE r(chr_loop(view, trans.str, 1))
       [] trans.match_type = "FSM" -> r(NoTransition(trans))
       [] trans.match_type = "FUNC" ->
            IF trans.action = "NULL" THEN r(NoTransition(trans))
            ELSE action(trans.action, view, ctx)
       [] OTHER -> r(NoTransition(trans))

(***************************************************************************)
(* run_fsm, one statement at a time, on the topmost activation.            *)
(***************************************************************************)
k == Len(stack)
top == stack[k]

\* The row current_trans points to; past the rows lies the sentinel.
RowAt(tbl, i) ==
  LET t == TableOf(tbl) IN IF i <= Len(t) THEN t[i] ELSE Sentinel

Row == RowAt(top.tbl, top.current_trans)

\* A bug: every row is attempted, whatever its source state.
EligibleAny(cs, trans) == TRUE

\* Line 162: the row is one of the current state.
Eligible(cs, trans) == cs = trans.current_state

\* A bug: the matcher gets the activation's data pointer itself.
MatcherArgData(i) == stack[i].data

\* Line 164: the matcher gets the address of the activation's cursor copy.
MatcherArg(i) == i

\* A bug: the callback gets the address of the cursor copy.
CallbackArgCopy(i) == i

\* Line 170: the callback gets the activation's data pointer.
CallbackArg(i) == stack[i].data

\* A bug: the advance is made on a copy, *data stays.
AdvancedCursorKept(at, n) == at

\* Line 175: *data += nbytes_used_transing.
AdvancedCursor(at, n) == at + n

\* A bug: the total is overwritten by the last matched length.
ProcessedLast(total, n) == n

\* Line 174: nbytes_processed += nbytes_used_transing.
Processed(total, n) == total + n

\* A bug: the flag is set on ACCEPT and never cleared.
InAcceptSticky(type, old) == IF type = "ACCEPT" THEN 1 ELSE old

\* Lines 182-184: the accept flag after a commit.
InAccept(type, old) == IF type = "ACCEPT" THEN 1 ELSE 0

\* A bug: a REJECT row is handled like a NORMAL one.
IsRejectNever(type) == FALSE

\* Line 185: the committed row aborts the run.
IsReject(type) == type = "REJECT"

\* A bug: state_fail is not applied.
FailStateIgnored(trans, cs) == cs

\* Lines 204-206: the current state after a failed match.
FailState(trans, cs) == IF trans.state_fail >= 0 THEN trans.state_fail ELSE cs

\* Line 150: current_trans++.
NextTrans(i) == i + 1

\* A bug: a pass without a successful transition does not halt the run.
PassStateKept(successful_trans, cs) == cs

\* Lines 213-215: the current state after a pass.
PassState(successful_trans, cs) == IF successful_trans = 0 THEN -1 ELSE cs

\* A bug: the accept flag is not consulted.
ReturnValueCount(f) == f.nbytes_processed

\* Line 222: the value run_fsm returns.
ReturnValue(f) == IF f.in_accept = 1 THEN f.nbytes_processed ELSE -1

\* Were the context restored when a run fails.
ContextOnReturnRestored(f, v) == IF v < 0 THEN f.ctx0 ELSE context

\* Lines 92-97: nothing restores the context when a run returns.
ContextOnReturn(f, v) == context

\* The stack after the topmost activation has returned v to its caller,
\* which is at the test of line 164.
\* A bug: the row that called a nested run fires whatever the run returned.
ReturnedAlwaysFires(st, v) ==
  IF Len(st) = 1 THEN <<>>
  ELSE [SubSeq(st, 1, Len(st) - 1) EXCEPT
          ![Len(st) - 1].nbytes_used_transing = v,
          ![Len(st) - 1].pc = "transfn"]

\* A bug: a nested run that accepts no bytes counts as a failed match.
ReturnedPositive(st, v) ==
  IF Len(st) = 1 THEN <<>>
  ELSE [SubSeq(st, 1, Len(st) - 1) EXCEPT
          ![Len(st) - 1].nbytes_used_transing = v,
          ![Len(st) - 1].pc = IF v > 0 THEN "transfn" ELSE "fail"]

Returned(st, v) ==
  IF Len(st) = 1 THEN <<>>
  ELSE [SubSeq(st, 1, Len(st) - 1) EXCEPT
          ![Len(st) - 1].nbytes_used_transing = v,
          ![Len(st) - 1].pc = IF v >= 0 THEN "transfn" ELSE "fail"]

\* History: the frame that gets control back learns that the nested run it
\* called returned from line 187.
NoteReject(st) ==
  IF st = <<>> THEN st
  ELSE [st EXCEPT ![Len(st)].subRej = TRUE, ![Len(st)].everSubRej = TRUE]

RetRecord(f, v, rej, end) ==
  [depth |-> k, tbl |-> f.tbl, value |-> v, byReject |-> rej,
   start |-> f.start, endpos |-> end, lastType |-> f.lastType,
   accepted |-> f.accepted, gsum |-> f.gsum, ctx0 |-> f.ctx0,
   exhausted |-> f.exhausted, everSubRej |-> f.everSubRej]

\* Lines 133-137: the caller enters run_fsm(table, &cursor, context).
Enter ==
  /\ phase = "init"
  /\ stack' = <<NewFrame("main", 0, cursor, context)>>
  /\ phase' = "running"
  /\ UNCHANGED <<table, input, cursor, context, result, lastRet,
                 zeroCommitted, reentered>>

\* Lines 140-143: the test of the while loop and the locals of its body.
WhileTest ==
  /\ phase = "running"
  /\ top.pc = "while"
  /\ stack' = [stack EXCEPT ![k] =
        IF top.current_state >= 0
          THEN [top EXCEPT !.successful_trans = 0, !.current_trans = 1,
                           !.attempts = <<>>, !.pc = "for"]
          ELSE [top EXCEPT !.pc = "return"]]
  /\ UNCHANGED <<table, input, cursor, context, phase, result, lastRet,
                 zeroCommitted, reentered>>

\* Lines 148-162: the test of the for loop, the cursor copy, the state test.
For ==
  /\ phase = "running"
  /\ top.pc = "for"
  /\ LET at == Load(stack, cursor, top.data)
     IN stack' = [stack EXCEPT ![k] =
          IF Row.current_state = -1
            THEN [top EXCEPT !.pc = "after"]
          ELSE IF Eligible(top.current_state, Row)
            THEN [top EXCEPT !.data_copy = at, !.pc = "match",
                    !.attempts = Append(@, [row |-> top.current_trans,
                                            st |-> top.current_state,
                                            res |-> "pending"]),
                    !.pos0 = at, !.cbCount = 0, !.subRej = FALSE]
          ELSE [top EXCEPT !.data_copy = at,
                           !.current_trans = NextTrans(@)]]
  /\ UNCHANGED <<table, input, cursor, context, phase, result, lastRet,
                 zeroCommitted, reentered>>

\* Line 164, the matcher returning without a nested run.
Match ==
  /\ phase = "running"
  /\ top.pc = "match"
  /\ ~(Row.match_type = "FSM" /\ Row.transition_table # "NULL")
  /\ LET arg == MatcherArg(k)
         m == run_transition(Row, Load(stack, cursor, arg), context)
         st == StoreStack(stack, arg, m.view)
     IN /\ stack' = [st EXCEPT ![k] =
              [st[k] EXCEPT !.nbytes_used_transing = m.ret,
                            !.pc = IF m.ret >= 0 THEN "transfn" ELSE "fail"]]
        /\ cursor' = StoreCursor(cursor, arg, m.view)
        /\ context' = m.ctx
  /\ UNCHANGED <<table, input, phase, result, lastRet,
                 zeroCommitted, reentered>>

\* Lines 91-105 and 133-137: the matcher calls run_fsm on the sub-table with
\* the pointer it got and the same context.
CallFsm ==
  /\ phase = "running"
  /\ top.pc = "match"
  /\ Row.match_type = "FSM" /\ Row.transition_table # "NULL"
  /\ k < MaxDepth
  /\ LET arg == MatcherArg(k)
     IN stack' = Append([stack EXCEPT ![k].pc = "call"],
                        NewFrame(Row.transition_table, arg,
                                 Load(stack, cursor, arg), context))
  /\ reentered' =
       (reentered \/ \E i \in 1..k : stack[i].tbl = Row.transition_table)
  /\ UNCHANGED <<table, input, cursor, context, phase, result, lastRet,
                 zeroCommitted>>

\* Lines 169-171: the callback of a row whose match succeeded.
Transfn ==
  /\ phase = "running"
  /\ top.pc = "transfn"
  /\ IF Row.transfn # "NULL"
       THEN LET at == Load(stack, cursor, CallbackArg(k))
            IN /\ context' = transfn(Row.transfn, at, context)
               /\ stack' = [stack EXCEPT ![k] =
                     [top EXCEPT !.cbCount = @ + 1, !.cbSaw = at,
                                 !.pc = "advance"]]
       ELSE /\ context' = context
            /\ stack' = [stack EXCEPT ![k].pc = "advance"]
  /\ UNCHANGED <<table, input, cursor, phase, result, lastRet,
                 zeroCommitted, reentered>>

\* Lines 174-198: the transition commits.  A REJECT row returns -1 from
\* here (line 187); any other row ends the pass (line 198).
Advance ==
  /\ phase = "running"
  /\ top.pc = "advance"
  /\ LET n == top.nbytes_used_transing
         at == AdvancedCursor(Load(stack, cursor, top.data), n)
         st == StoreStack(stack, top.data, at)
         f == [st[k] EXCEPT
                 !.nbytes_processed = Processed(@, n),
                 !.current_state = Row.state_pass,
                 !.in_accept = InAccept(Row.type, @),
                 !.lastType = Row.type,
                 !.accepted = (@ \/ Row.type = "ACCEPT"),
                 !.gsum = @ + n,
                 !.attempts = [@ EXCEPT ![Len(@)].res = "commit"]]
     IN /\ cursor' = StoreCursor(cursor, top.data, at)
        /\ zeroCommitted' = (zeroCommitted \/ n = 0)
        /\ IF IsReject(Row.type)
             THEN /\ stack' = NoteReject(Returned(st, -1))
                  /\ lastRet' = RetRecord(f, -1, TRUE, at)
                  /\ phase' = IF k = 1 THEN "done" ELSE phase
                  /\ result' = IF k = 1 THEN -1 ELSE result
                  /\ context' = ContextOnReturn(f, -1)
             ELSE /\ stack' = [st EXCEPT ![k] =
                        [f EXCEPT !.successful_trans = 1, !.pc = "after"]]
                  /\ UNCHANGED <<lastRet, phase, result, context>>
  /\ UNCHANGED <<table, input, reentered>>

\* Lines 199-207 and the step of the for loop: the match failed.
Fail ==
  /\ phase = "running"
  /\ top.pc = "fail"
  /\ stack' = [stack EXCEPT ![k] =
        [top EXCEPT !.current_state = FailState(Row, @),
                    !.current_trans = NextTrans(@),
                    !.attempts = [@ EXCEPT ![Len(@)].res = "fail"],
                    !.pc = "for"]]
  /\ UNCHANGED <<table, input, cursor, context, phase, result, lastRet,
                 zeroCommitted, reentered>>

\* Lines 211-215: after the for loop.
After ==
  /\ phase = "running"
  /\ top.pc = "after"
  /\ stack' = [stack EXCEPT ![k] =
        [top EXCEPT !.current_state = PassState(top.successful_trans, @),
                    !.exhausted = (top.successful_trans = 0),
                    !.pc = "while"]]
  /\ UNCHANGED <<table, input, cursor, context, phase, result, lastRet,
                 zeroCommitted, reentered>>

\* Line 222: run_fsm returns to its caller.
Return ==
  /\ phase = "running"
  /\ top.pc = "return"
  /\ LET v == ReturnValue(top)
     IN /\ stack' = Returned(stack, v)
        /\ lastRet' = RetRecord(top, v, FALSE, Load(stack, cursor, top.data))
        /\ phase' = IF k = 1 THEN "done" ELSE phase
        /\ result' = IF k = 1 THEN v ELSE result
        /\ context' = ContextOnReturn(top, v)
  /\ UNCHANGED <<table, input, cursor, zeroCommitted, reentered>>

Next ==
  \/ Enter
  \/ WhileTest
  \/ For
  \/ Match
  \/ CallFsm
  \/ Transfn
  \/ Advance
  \/ Fail
  \/ After
  \/ Return

Spec == Init /\ [][Next]_vars

\* run_fsm is sequential code: a statement that can run does run.
FairSpec == Spec /\ WF_vars(Next)

TypeOK ==
  /\ phase \in {"init", "running", "done"}
  /\ cursor \in 0..Len(input)
  /\ Len(context) <= CtxCap
  /\ Len(stack) <= MaxDepth
  /\ \A i \in 1..Len(stack) :
       /\ stack[i].data = i - 1
       /\ stack[i].current_trans <= Len(TableOf(stack[i].tbl)) + 1

(***************************************************************************)
(* Properties.  lastRet describes the activation of run_fsm that returned  *)
(* last, at any depth of nesting.                                          *)
(***************************************************************************)
Frames == {stack[i] : i \in 1..Len(stack)}

\* C1: a run that halts without a Reject returns a non-negative value if and
\* only if the transition it committed last was of kind ACCEPT; that value
\* is the sum of the matched lengths of all transitions committed in the
\* run; otherwise the run returns -1 (so an Accept followed by a committed
\* Normal transition yields -1).
C1_ReturnValue ==
  (lastRet.depth > 0 /\ ~lastRet.byReject) =>
    /\ (lastRet.value >= 0) <=> (lastRet.lastType = "ACCEPT")
    /\ lastRet.value >= 0 => lastRet.value = lastRet.gsum
    /\ lastRet.value < 0 => lastRet.value = -1
    /\ (lastRet.accepted /\ lastRet.lastType = "NORMAL") => lastRet.value = -1

\* A run committed an Accept transition, then a Normal one that consumed
\* input, and halted by exhaustion.
C1_Witness ==
  /\ phase = "done"
  /\ lastRet.depth = 1 /\ ~lastRet.byReject
  /\ lastRet.accepted /\ lastRet.lastType = "NORMAL"
  /\ lastRet.gsum >= 2

\* C2, as claimed: whenever run_fsm returns -1 the caller's cursor is where
\* it was when run_fsm was called.
C2_CursorRestoredOnFailure ==
  (phase = "done" /\ result = -1) => cursor = 0

\* C2, amended: whenever run_fsm returns -1, *data has been advanced by the
\* matched lengths of all transitions committed in the run, the Reject row's
\* own included; it is at its entry position only if that sum is 0.
C2_CursorKeepsCommitsOnFailure ==
  (lastRet.depth > 0 /\ lastRet.value = -1) =>
    lastRet.endpos = lastRet.start + lastRet.gsum

\* The outermost run returned -1 after committing transitions that consumed
\* input: the caller's cursor is past them.
C2_Witness ==
  /\ phase = "done" /\ result = -1
  /\ lastRet.depth = 1 /\ lastRet.gsum >= 1
  /\ cursor = lastRet.gsum

\* C3: when a Reject row's match succeeds the run returns -1 at once, whatever
\* it consumed or accepted before, and nothing more happens in that run: no
\* activation is still running after it committed a Reject row.
C3_RejectAborts ==
  /\ \A f \in Frames : f.lastType # "REJECT"
  /\ (lastRet.depth > 0 /\ lastRet.lastType = "REJECT") =>
       (lastRet.byReject /\ lastRet.value = -1)
  /\ (phase = "done" /\ lastRet.lastType = "REJECT") => result = -1

\* A run accepted and consumed input, then a Reject row fired.
C3_Witness ==
  /\ phase = "done" /\ result = -1
  /\ lastRet.depth = 1 /\ lastRet.byReject
  /\ lastRet.accepted /\ lastRet.gsum >= 2

\* C4, as claimed: for every table and input run_fsm halts, tables with
\* transitions that succeed on zero bytes and tables whose FSM rows lead back
\* to a table being run included.
C4_AlwaysHalts == <>(phase = "done")

\* C4, amended: run_fsm halts unless it commits a transition that consumed
\* zero bytes or a FSM row runs a table that is already being run.
C4_HaltsWhenProductive == <>(phase = "done" \/ zeroCommitted \/ reentered)

\* A run halted after committing transitions that all consumed input, a
\* nested run among them.
C4_Witness ==
  /\ phase = "done"
  /\ ~zeroCommitted /\ ~reentered
  /\ lastRet.depth = 1 /\ lastRet.gsum >= 2

\* *data of activation i.
Deref(i) == Load(stack, cursor, stack[i].data)

\* The row activation i is at.
RowOf(i) == RowAt(stack[i].tbl, stack[i].current_trans)

IsPrefix(a, b) == Len(a) <= Len(b) /\ SubSeq(b, 1, Len(a)) = a

\* C5: a match attempt that fails never changes the authoritative cursor,
\* whatever the matcher or a nested run did to the copy; from the attempt
\* until the commit *data is where it was when the attempt began, and after
\* the commit it is further by exactly the length the matcher returned.
C5_FailedMatchKeepsCursor ==
  \A i \in 1..Len(stack) :
    LET f == stack[i]
    IN /\ f.pc \in {"match", "call", "transfn", "advance", "fail"} =>
            Deref(i) = f.pos0
       /\ (f.pc = "for" /\ Len(f.attempts) > 0) => Deref(i) = f.pos0
       /\ (f.pc = "after" /\ f.successful_trans = 1) =>
            Deref(i) = f.pos0 + f.nbytes_used_transing

\* A FSM row failed after its nested run had committed transitions and moved
\* the copy.
C5_Witness ==
  \E i \in 1..Len(stack) :
    /\ stack[i].pc = "fail"
    /\ RowOf(i).match_type = "FSM"
    /\ stack[i].data_copy > stack[i].pos0
    /\ lastRet.depth = i + 1 /\ lastRet.value = -1 /\ lastRet.gsum >= 1

\* C6: no step takes away or changes what was put into the context, not the
\* return of a nested run that failed, not a return of -1.
C6_NoRollback == [][IsPrefix(context, context')]_vars

\* A nested run has just failed after a callback of it put something into
\* the context, and it is there.
C6_Witness ==
  /\ lastRet.depth = 2 /\ lastRet.value = -1
  /\ Len(stack) = 1 /\ stack[1].pc = "fail"
  /\ IsPrefix(lastRet.ctx0, context)
  /\ Len(context) > Len(lastRet.ctx0)

\* The state a failed attempt a of table t leaves.
AfterFail(t, a) ==
  IF t[a.row].state_fail >= 0 THEN t[a.row].state_fail ELSE a.st

\* C7: when the match of an eligible row fails, the current state becomes the
\* row's state_fail at once if that is not negative and stays otherwise, and
\* the same pass goes on from the next row: the next row attempted is the
\* first later row whose source state is that state.
C7_FailRedirect ==
  \A i \in 1..Len(stack) :
    LET f == stack[i]
        t == TableOf(f.tbl)
        a == f.attempts
    IN /\ \A j \in 1..(Len(a) - 1) :
            /\ a[j + 1].row > a[j].row
            /\ a[j + 1].st = AfterFail(t, a[j])
            /\ t[a[j + 1].row].current_state = a[j + 1].st
            /\ \A m \in (a[j].row + 1)..(a[j + 1].row - 1) :
                 t[m].current_state # a[j + 1].st
       /\ (Len(a) > 0 /\ a[Len(a)].res = "fail" /\ f.pc \in {"for", "after"}) =>
            /\ f.current_state = AfterFail(t, a[Len(a)])
            /\ f.current_trans > a[Len(a)].row
            /\ \A m \in (a[Len(a)].row + 1)..(f.current_trans - 1) :
                 t[m].current_state # f.current_state

\* A failed row redirected the run to another state and a later row of that
\* state was attempted in the same pass.
C7_Witness ==
  \E i \in 1..Len(stack) :
    LET a == stack[i].attempts
    IN /\ Len(a) >= 2
       /\ a[1].res = "fail"
       /\ a[2].st # a[1].st

\* C8: in a pass rows are attempted in table order from the first row, only
\* rows whose source state is the current state, never the sentinel or a row
\* after it; the first row whose match succeeds is committed and no row is
\* attempted after it.
C8_TableOrder ==
  \A i \in 1..Len(stack) :
    LET f == stack[i]
        t == TableOf(f.tbl)
        a == f.attempts
    IN /\ f.current_trans <= Len(t) + 1
       /\ \A j \in 1..Len(a) :
            /\ a[j].row <= Len(t)
            /\ t[a[j].row].current_state = a[j].st
            /\ j < Len(a) => (a[j].row < a[j + 1].row /\ a[j].res = "fail")
       /\ Len(a) >= 1 =>
            \A m \in 1..(a[1].row - 1) : t[m].current_state # a[1].st
       /\ (f.pc \in {"after", "while"} /\ f.successful_trans = 1) =>
            /\ Len(a) >= 1
            /\ a[Len(a)].res = "commit"
            /\ a[Len(a)].row = f.current_trans

\* A pass committed the first row of the current state, and the next row of
\* the table is of that state too: it was not attempted.
C8_Witness ==
  \E i \in 1..Len(stack) :
    LET f == stack[i]
    IN /\ f.pc = "after" /\ f.successful_trans = 1
       /\ Len(f.attempts) = 1
       /\ f.current_trans < Len(TableOf(f.tbl))
       /\ RowAt(f.tbl, f.current_trans + 1).current_state = f.attempts[1].st

\* C9: the callback of a row runs once, after the row's match succeeded and
\* before *data is advanced, and it sees *data where it was when the attempt
\* began; this holds for REJECT rows too; it does not run for a row whose
\* match failed.
C9_CallbackOnce ==
  \A i \in 1..Len(stack) :
    LET f == stack[i]
        calls == IF RowOf(i).transfn # "NULL" THEN 1 ELSE 0
    IN /\ f.pc \in {"match", "call", "transfn", "fail"} => f.cbCount = 0
       /\ (f.pc = "for" /\ Len(f.attempts) > 0) => f.cbCount = 0
       /\ f.pc = "advance" =>
            /\ f.cbCount = calls
            /\ calls = 1 => f.cbSaw = f.pos0
            /\ Deref(i) = f.pos0
       /\ (f.pc = "after" /\ f.successful_trans = 1) => f.cbCount = calls

\* The callback of a REJECT row has run, before the advance, on a match that
\* consumed input.
C9_Witness ==
  \E i \in 1..Len(stack) :
    /\ stack[i].pc = "advance"
    /\ RowOf(i).type = "REJECT" /\ RowOf(i).transfn # "NULL"
    /\ stack[i].cbCount = 1
    /\ stack[i].nbytes_used_transing >= 1
    /\ Len(context) > 0 /\ context[Len(context)].at = stack[i].pos0

ExampleRow ==
  T(0, "EXACT_STR", <<"a", "b">>, "NULL", "NULL", 1, 1, "ACCEPT", "NULL")

\* C10: an EXACT_STR row with a non-empty pattern matches if and only if the
\* input at the cursor has the bytes of the pattern over its whole length,
\* and the length matched is the length of the pattern; a table of the one
\* row "ab" from state 0 to an accept state returns 2 on "abcd", the cursor
\* 2 bytes on.
C10_ExactStr ==
  /\ \A i \in 1..Len(stack) :
       LET f == stack[i]
           s == RowOf(i).str
           p == f.pos0
           eq == /\ p + Len(s) <= Len(input)
                 /\ SubSeq(input, p + 1, p + Len(s)) = s
       IN (/\ f.pc \in {"transfn", "fail"}
           /\ RowOf(i).match_type = "EXACT_STR"
           /\ s # NULL_STR /\ Len(s) > 0) =>
            /\ (f.pc = "transfn") <=> eq
            /\ f.pc = "transfn" => f.nbytes_used_transing = Len(s)
  /\ (phase = "done" /\ table = <<ExampleRow>>
        /\ input = <<"a", "b", "c", "d">>) => (result = 2 /\ cursor = 2)

\* The one-row table "ab" has run on "abcd".
C10_Witness ==
  /\ phase = "done"
  /\ table = <<ExampleRow>>
  /\ input = <<"a", "b", "c", "d">>
  /\ result = 2 /\ cursor = 2

\* C11: a SINGLE_CHR row matches if and only if the byte at the cursor is one
\* of the bytes of the row's set; the length matched is 1 whatever the size
\* of the set; a null or empty set never matches.
C11_SingleChr ==
  \A i \in 1..Len(stack) :
    LET f == stack[i]
        s == RowOf(i).str
        member == /\ s # NULL_STR
                  /\ f.pos0 < Len(input)
                  /\ \E j \in 1..Len(s) : s[j] = input[f.pos0 + 1]
    IN (f.pc \in {"transfn", "fail"} /\ RowOf(i).match_type = "SINGLE_CHR") =>
         /\ (f.pc = "transfn") <=> member
         /\ f.pc = "transfn" => f.nbytes_used_transing = 1
         /\ (s = NULL_STR \/ s = <<>>) => f.pc = "fail"

\* A set of two bytes matched on its second byte, with length 1.
C11_Witness ==
  \E i \in 1..Len(stack) :
    /\ stack[i].pc = "transfn"
    /\ RowOf(i).match_type = "SINGLE_CHR"
    /\ Len(RowOf(i).str) = 2
    /\ ByteAt(stack[i].pos0) = RowOf(i).str[2]
    /\ stack[i].nbytes_used_transing = 1

\* The row's kind is not one of the four, or the field its kind needs is null.
Malformed(trans) ==
  \/ trans.match_type \notin {"EXACT_STR", "SINGLE_CHR", "FSM", "FUNC"}
  \/ trans.match_type \in {"EXACT_STR", "SINGLE_CHR"} /\ trans.str = NULL_STR
  \/ trans.match_type = "FSM" /\ trans.transition_table = "NULL"
  \/ trans.match_type = "FUNC" /\ trans.action = "NULL"

\* C12: a row of unknown kind or with the field of its kind missing is an
\* ordinary match failure: the matcher returns -1, no nested run starts, no
\* callback runs, neither *data nor the copy moves, the context stays, the
\* row's state_fail is applied and the pass goes on with the next row.
C12_MalformedFails ==
  \A i \in 1..Len(stack) :
    LET f == stack[i]
        t == TableOf(f.tbl)
        a == f.attempts
        last == a[Len(a)]
    IN (Len(a) > 0 /\ Malformed(t[last.row])) =>
         /\ f.pc \in {"match", "fail", "for", "after", "while", "return"}
         /\ last.res \in {"pending", "fail"}
         /\ f.cbCount = 0
         /\ Deref(i) = f.pos0 /\ f.data_copy = f.pos0
         /\ f.pc = "fail" =>
              (f.nbytes_used_transing = -1 /\ f.current_trans = last.row)
         /\ f.pc = "for" =>
              /\ f.current_state = AfterFail(t, last)
              /\ f.current_trans > last.row

\* A row of unknown kind has failed, its state_fail has moved the run to
\* another state and the pass is at the next row.
C12_Witness ==
  \E i \in 1..Len(stack) :
    LET f == stack[i]
        a == f.attempts
    IN /\ f.pc = "for" /\ Len(a) = 1
       /\ TableOf(f.tbl)[a[1].row].match_type = "BAD"
       /\ a[1].res = "fail"
       /\ f.current_state # a[1].st
       /\ f.current_trans = a[1].row + 1

\* C13, as claimed: an EXACT_STR row whose pattern is the empty string never
\* fires, so every EXACT_STR transition that fires has matched at least one
\* byte.
C13_EmptyPatternNeverFires ==
  \A i \in 1..Len(stack) :
    (stack[i].pc \in {"transfn", "advance"}
       /\ RowOf(i).match_type = "EXACT_STR") =>
      (RowOf(i).str # <<>> /\ stack[i].nbytes_used_transing >= 1)

\* C15, as claimed: whenever a pass ends with no row matched, run_fsm
\* returns -1.
C15_ExhaustionFails ==
  (lastRet.depth > 0 /\ lastRet.exhausted) => lastRet.value = -1

\* C15, amended: a pass that ends with no row matched ends the run, and the
\* run then returns -1 if the last committed row was not ACCEPT (or nothing
\* was committed) and the total of the committed lengths otherwise; every
\* return that is not the return of a REJECT row comes after such a pass.
C15_ExhaustionEndsRun ==
  lastRet.depth > 0 =>
    /\ lastRet.exhausted <=> ~lastRet.byReject
    /\ lastRet.exhausted =>
         /\ lastRet.lastType # "ACCEPT" => lastRet.value = -1
         /\ lastRet.lastType = "ACCEPT" =>
              (lastRet.value = lastRet.gsum /\ lastRet.value >= 0)

\* The outermost run ended by a pass without a match and returned a length
\* of at least 1.
C15_Witness ==
  /\ phase = "done"
  /\ lastRet.depth = 1
  /\ lastRet.exhausted
  /\ result >= 1

\* C16: a pass that reaches the sentinel with no successful transition sets
\* the state to -1 and the run does nothing more than return, even if a
\* state_fail changed the state during the pass: the attempts of the pass
\* all failed and went strictly down the table, no row of the redirected
\* state at or before the failing row was attempted after the redirect, and
\* no pass was started for the redirected state.
C16_NoPassAfterExhaustion ==
  \A i \in 1..Len(stack) :
    LET f == stack[i]
        t == TableOf(f.tbl)
        a == f.attempts
    IN /\ (f.pc = "after" /\ f.successful_trans = 0) =>
            /\ f.current_trans = Len(t) + 1
            /\ \A j \in 1..Len(a) : a[j].res = "fail"
       /\ f.exhausted =>
            /\ f.current_state = -1
            /\ f.pc \in {"while", "return"}
            /\ f.successful_trans = 0
            /\ \A j \in 1..Len(a) : a[j].res = "fail"
            /\ \A j \in 1..(Len(a) - 1) : a[j + 1].row > a[j].row
            /\ \A j \in 1..Len(a) : \A m \in (j + 1)..Len(a) :
                 \A r \in 1..a[j].row :
                   t[r].current_state = AfterFail(t, a[j]) => a[m].row # r

\* The run halted after a pass whose failing row redirected to another state
\* that has a row earlier in the table, and that row was never attempted.
C16_Witness ==
  \E i \in 1..Len(stack) :
    LET f == stack[i]
        t == TableOf(f.tbl)
        a == f.attempts
    IN /\ f.exhausted /\ f.pc = "return"
       /\ \E j \in 1..Len(a) : \E r \in 1..(a[j].row - 1) :
            /\ AfterFail(t, a[j]) # a[j].st
            /\ t[r].current_state = AfterFail(t, a[j])
            /\ \A m \in 1..Len(a) : a[m].row # r

\* C17: with callbacks that leave the cursor alone, at every step of a run
\* *data is the position it had at entry plus nbytes_processed, and a run
\* that returns n >= 0 leaves *data exactly n bytes past where it was at
\* entry.
C17_CursorIsEntryPlusTotal ==
  /\ \A i \in 1..Len(stack) :
       Deref(i) = stack[i].start + stack[i].nbytes_processed
  /\ (lastRet.depth > 0 /\ lastRet.value >= 0) =>
       lastRet.endpos = lastRet.start + lastRet.value
  /\ (phase = "done" /\ result >= 0) => cursor = result

\* A run whose callbacks ran has returned 2 and the caller's cursor is 2
\* bytes past the position it had at entry.
C17_Witness ==
  /\ phase = "done"
  /\ result = 2
  /\ cursor = 2
  /\ lastRet.start = 0 /\ lastRet.endpos = 2
  /\ Len(context) >= 1

\* C18: an FSM row runs run_fsm afresh on its sub-table: the nested run
\* starts in state 0 with a count of 0 and the accept flag clear, works on
\* the caller's copy of the cursor and on the same context, and leaves the
\* caller's state and cursor alone while it runs.  The row fires if and only
\* if the nested run accepts; the caller then advances by the length the
\* nested run returned, 0 included, and goes to the row's state_pass.
C18_NestedRun ==
  /\ \A i \in 2..Len(stack) :
       LET f == stack[i]
           g == stack[i - 1]
       IN /\ f.data = i - 1
          /\ f.start = g.pos0
          /\ g.pc = "call"
          /\ RowOf(i - 1).match_type = "FSM"
          /\ RowOf(i - 1).transition_table = f.tbl
          /\ g.current_state = g.attempts[Len(g.attempts)].st
          /\ Deref(i - 1) = g.pos0
          /\ IsPrefix(f.ctx0, context)
          /\ (f.pc = "while" /\ f.lastType = "NONE" /\ ~f.exhausted) =>
               /\ f.current_state = 0
               /\ f.nbytes_processed = 0
               /\ f.in_accept = 0
               /\ f.ctx0 = context
  /\ \A i \in 1..Len(stack) :
       LET f == stack[i]
           row == RowOf(i)
           nested == row.match_type = "FSM" /\ row.transition_table # "NULL"
       IN /\ (nested /\ f.pc \in {"transfn", "fail", "advance"}) =>
               /\ i = Len(stack)
               /\ lastRet.depth = i + 1
               /\ lastRet.tbl = row.transition_table
               /\ lastRet.start = f.pos0
               /\ f.nbytes_used_transing = lastRet.value
               /\ (f.pc = "fail") <=> (lastRet.value = -1)
               /\ (f.pc # "fail") <=>
                    (~lastRet.byReject /\ lastRet.lastType = "ACCEPT")
               /\ f.current_state = f.attempts[Len(f.attempts)].st
               /\ Deref(i) = f.pos0
          /\ (nested /\ f.pc = "after" /\ f.successful_trans = 1) =>
               /\ lastRet.value >= 0
               /\ Deref(i) = f.pos0 + lastRet.value
               /\ f.current_state = row.state_pass

\* An FSM row fired on a nested run that accepted 2 bytes: the caller's
\* cursor is 2 bytes further and the caller is in the row's state_pass.
C18_Witness ==
  \E i \in 1..Len(stack) :
    /\ stack[i].pc = "after" /\ stack[i].successful_trans = 1
    /\ RowOf(i).match_type = "FSM"
    /\ RowOf(i).transition_table = "sub_ab"
    /\ lastRet.value = 2
    /\ Deref(i) = stack[i].pos0 + 2
    /\ stack[i].current_state = RowOf(i).state_pass

\* C19: a REJECT row committed inside a nested run ends that nested run
\* only.  For the run that called it the FSM row is a failed match like any
\* other: the value is -1, no callback of the row runs, *data stays, the
\* row's state_fail is applied and the pass goes on with the next row; the
\* calling run goes on and may still return a length.
C19_NestedRejectIsLocal ==
  \A i \in 1..Len(stack) :
    LET f == stack[i]
        t == TableOf(f.tbl)
        a == f.attempts
        last == a[Len(a)]
    IN f.subRej =>
         /\ phase = "running"
         /\ Len(a) > 0
         /\ t[last.row].match_type = "FSM"
         /\ last.res \in {"pending", "fail"}
         /\ f.pc \in {"fail", "for", "after", "while", "return", "call"}
         /\ f.cbCount = 0
         /\ Deref(i) = f.pos0
         /\ f.pc = "fail" =>
              /\ f.nbytes_used_transing = -1
              /\ f.current_trans = last.row
              /\ lastRet.byReject /\ lastRet.depth = i + 1
         /\ f.pc = "for" =>
              /\ last.res = "fail"
              /\ f.current_state = AfterFail(t, last)
              /\ f.current_trans > last.row

\* The outermost run returned a length although a nested run it had called
\* was ended by a REJECT row.
C19_Witness ==
  /\ phase = "done"
  /\ result >= 0
  /\ lastRet.depth = 1
  /\ lastRet.everSubRej

\* C20: run_fsm returns a value >= 0 only if it committed at least one
\* transition; a table of the sentinel alone, and any run whose first pass
\* has no successful transition, returns -1 whatever the input is.
C20_SuccessNeedsCommit ==
  /\ lastRet.depth > 0 =>
       /\ lastRet.value >= 0 => (lastRet.lastType # "NONE" /\ lastRet.accepted)
       /\ lastRet.lastType = "NONE" =>
            (lastRet.value = -1 /\ lastRet.endpos = lastRet.start)
  /\ (phase = "done" /\ table = <<>>) => (result = -1 /\ cursor = 0)

\* The table of the sentinel alone has returned -1 on an input that is not
\* empty.
C20_Witness ==
  /\ phase = "done"
  /\ table = <<>>
  /\ input # <<>>
  /\ result = -1
  /\ lastRet.lastType = "NONE"

====
